---------------------------- MODULE Spec2Model ----------------------------
(***************************************************************************)
(* Worker-process initialisation and reseeding of a DataPipe graph         *)
(* (torchdata/dataloader2/utils/worker.py).                                *)
(*                                                                         *)
(* A DataPipe graph is a rooted acyclic graph of typed nodes.  The graph   *)
(* helpers the module calls (traverse_dps, find_dps, replace_dp,           *)
(* find_replicable_branches, apply_sharding, apply_random_seed,            *)
(* generate_random_int, reset_epoch) live outside the two source files;    *)
(* they are modelled by their documented effect and marked as such in the  *)
(* model map.                                                              *)
(***************************************************************************)
EXTENDS Integers, Sequences, FiniteSets, TLC

(* ------------------------------ bounds --------------------------------- *)
\* Largest number of nodes of a DataPipe graph handed to process_init_fn.
NumNodes == 3
\* Largest pool size (WorkerInfo.num_workers).
MaxWorkers == 2
\* Largest number of distributed nodes (_DistInfo.world_size).
MaxWorldSize == 2
\* Shared seeds range over 0..MaxSeed.
MaxSeed == 1
\* Number of epochs a pool runs.
MaxEpochs == 2

(* ------------------------------ values --------------------------------- *)
None == "None"

\* An optional value that is not a string: absent, or present.
Nothing == <<>>
Some(x) == <<x>>
Get(o) == o[1]

\* Node classes that matter to worker.py.
Dummy == "_DummyIterDataPipe"
IterQueue == "_IterateQueueDataPipes"
\* Any other DataPipe: replicable, and random (apply_random_seed seeds it).
Shuffler == "Shuffler"

\* Classes of the nodes of a graph a user hands to the reading service:
\* _IterateQueueDataPipes is only ever created by process_init_fn.
UserTypes == {Shuffler, Dummy}

\* What the isinstance check of a custom function's return value looks at.
IterDataPipe == "IterDataPipe"
MapDataPipe == "MapDataPipe"
NotDataPipe == "NotDataPipe"

\* A queue argument: a multiprocessing Queue, or None.
QueueArgs == {None, "Queue"}

\* A custom init/reset function: what it returns, and whether it first sets
\* the seeds of the DataPipe it is given, in place.  It returns the DataPipe
\* it was given, a new one-node IterDataPipe, a new IterDataPipe that holds a
\* _DummyIterDataPipe, the given DataPipe wrapped in a new one next to one
\* more _IterateQueueDataPipes, a new MapDataPipe, or None.
Returns == {"datapipe", "new", "placeholder", "wrapped", "map", "none"}

CustomFn(returns, reseeds) == [returns |-> returns, reseeds |-> reseeds]

\* No custom function: the argument is None.
NoFn == CustomFn(None, FALSE)

CustomFns ==
    {NoFn} \cup {CustomFn(r, FALSE) : r \in Returns}
           \cup {CustomFn(r, TRUE) : r \in {"datapipe", "none"}}

\* WorkerInfo(num_workers, worker_id), frozen dataclass.
WorkerInfo(num_workers, worker_id) ==
    [num_workers |-> num_workers, worker_id |-> worker_id]

\* _DistInfo(shared_seed, world_size, rank), frozen dataclass.
DistInfo(shared_seed, world_size, rank) ==
    [shared_seed |-> shared_seed, world_size |-> world_size, rank |-> rank]

WorkerInfos ==
    UNION {{WorkerInfo(n, w) : w \in 0..(n - 1)} : n \in 1..MaxWorkers}

(* ------------------------------ graphs --------------------------------- *)
\* A graph: nodes 1..size, node 1 the root (the `datapipe` argument); srcs
\* lists a node's source DataPipes (always higher-numbered: acyclic);
\* client[i] is the queue pair an _IterateQueueDataPipes node is connected to;
\* shard[i] the sharding setting applied to node i (Nothing: never sharded);
\* seed[i] the random seed set on node i (Nothing: never seeded).
Root == 1

NoClient == [req |-> None, res |-> None]

\* Every node but the root has at least one consumer among the lower nodes,
\* and a _DummyIterDataPipe placeholder has no sources.
WellFormed(size, type, srcs) ==
    /\ \A i \in 2..size : \E j \in 1..(i - 1) : i \in srcs[j]
    /\ \A i \in 1..size : type[i] = Dummy => srcs[i] = {}

GraphsOfSize(size, types) ==
    {[size |-> size, type |-> t, srcs |-> s,
      client |-> [i \in 1..size |-> NoClient],
      shard |-> [i \in 1..size |-> Nothing],
      seed |-> [i \in 1..size |-> Nothing]] :
        <<t, s>> \in {ts \in [1..size -> types] \X
                              [1..size -> SUBSET (1..size)] :
                        /\ \A i \in 1..size : ts[2][i] \subseteq (i + 1)..size
                        /\ WellFormed(size, ts[1], ts[2])}}

Graphs(types) == UNION {GraphsOfSize(n, types) : n \in 1..NumNodes}

RECURSIVE Reach(_, _)
\* The nodes of the sub-graph rooted at node i (i included).
Reach(g, i) == {i} \cup UNION {Reach(g, j) : j \in g.srcs[i]}

\* traverse_dps(datapipe): the nodes reachable from the root.
traverse_dps(g) == Reach(g, Root)

\* find_dps(graph, cls): the nodes of the traversed graph of class cls.
find_dps(g, cls) == {i \in traverse_dps(g) : g.type[i] = cls}

\* Whether the branch rooted at i holds no _DummyIterDataPipe.
IsReplicable(g, i) == \A j \in Reach(g, i) : g.type[j] # Dummy

RECURSIVE FindBranches(_, _)
FindBranches(g, i) ==
    IF IsReplicable(g, i) THEN {i}
    ELSE IF g.type[i] = Dummy THEN {}
    ELSE UNION {FindBranches(g, j) : j \in g.srcs[i]}

\* find_replicable_branches(graph): the topmost nodes whose branch holds no
\* _DummyIterDataPipe.
find_replicable_branches(g) == FindBranches(g, Root)

\* replace_dp(graph, old, new): node `old` becomes the new DataPipe, with the
\* new DataPipe's sources (none that worker.py looks at) in place of its own.
replace_dp(g, old, newType, newClient) ==
    [g EXCEPT !.type[old] = newType,
              !.srcs[old] = {},
              !.client[old] = newClient]

\* graph_settings.apply_sharding(dp, num_workers, worker_id, MULTIPROCESSING):
\* every node of dp's graph receives the sharding setting.
apply_sharding(g, dp, worker_info) ==
    [g EXCEPT !.shard = [i \in 1..g.size |->
                            IF i \in Reach(g, dp) THEN Some(worker_info)
                            ELSE g.shard[i]]]

\* A graph built by a custom function: nodes of the classes in type, on the
\* sources in srcs, every _IterateQueueDataPipes on both queues.
NewGraph(type, srcs) ==
    [size |-> Len(type), type |-> type, srcs |-> srcs,
     client |-> [i \in 1..Len(type) |->
                    IF type[i] = IterQueue
                    THEN [req |-> "Queue", res |-> "Queue"] ELSE NoClient],
     shard |-> [i \in 1..Len(type) |-> Nothing],
     seed |-> [i \in 1..Len(type) |-> Nothing]]

\* A new root over graph g and one more _IterateQueueDataPipes: g's nodes
\* follow the new root, the new consumer comes last.
Wrapped(g) ==
    LET n == g.size + 2
        new == NewGraph([i \in 1..n |-> IF i = 1 THEN Shuffler
                                        ELSE IF i = n THEN IterQueue
                                        ELSE g.type[i - 1]],
                        [i \in 1..n |-> IF i = 1 THEN {2, n}
                                        ELSE IF i = n THEN {}
                                        ELSE {j + 1 : j \in g.srcs[i - 1]}])
    IN  [new EXCEPT
            !.client = [i \in 1..n |-> IF i \in 2..(n - 1) THEN g.client[i - 1]
                                       ELSE new.client[i]],
            !.shard = [i \in 1..n |-> IF i \in 2..(n - 1) THEN g.shard[i - 1]
                                      ELSE Nothing],
            !.seed = [i \in 1..n |-> IF i \in 2..(n - 1) THEN g.seed[i - 1]
                                     ELSE Nothing]]

(* --------------------------- random numbers ---------------------------- *)
\* torch.Generator: the seed it was given and how many numbers were drawn.
manual_seed(seed) == [seed |-> seed, offset |-> 0]

\* generate_random_int(rng, dtype): the next number of the generator's
\* stream; distinct (seed, offset) pairs give distinct numbers, never
\* negative (Tensor.random_ draws from [0, max of dtype]).
generate_random_int(gen) == gen.seed * 16 + gen.offset + 1

Advance(gen) == [gen EXCEPT !.offset = gen.offset + 1]

\* The random DataPipes of a graph, in traversal order.
RandomDps(g) == {i \in traverse_dps(g) : g.type[i] = Shuffler}

\* graph_settings.apply_random_seed(datapipe, rng): each random DataPipe
\* gets the next number drawn from rng.
apply_random_seed(g, gen) ==
    LET rank(i) == Cardinality({j \in RandomDps(g) : j < i})
    IN  [g EXCEPT !.seed = [i \in 1..g.size |->
            IF i \in RandomDps(g)
            THEN Some(generate_random_int(
                     [gen EXCEPT !.offset = gen.offset + rank(i)]))
            ELSE g.seed[i]]]

\* The generator after apply_random_seed drew one number per random DataPipe.
AfterRandomSeed(g, gen) ==
    [gen EXCEPT !.offset = gen.offset + Cardinality(RandomDps(g))]

(* ------------------------------ worker.py ------------------------------ *)
\* A DataPipe value: the class isinstance sees, and its graph.
UserPipe(g) == [class |-> IterDataPipe, graph |-> g]

\* A custom function that sets the seed of every random DataPipe in place.
Reseeded(datapipe) ==
    [datapipe EXCEPT !.graph.seed =
        [i \in 1..datapipe.graph.size |->
            IF i \in RandomDps(datapipe.graph) THEN Some(99)
            ELSE datapipe.graph.seed[i]]]

\* custom_init_fn(datapipe, worker_info) / custom_reset_fn(datapipe,
\* worker_info): the value the user's function returns, taken as it is, and
\* the state it leaves the DataPipe it was given in.
CallCustomFn(fn, datapipe) ==
    LET left == IF fn.reseeds THEN Reseeded(datapipe) ELSE datapipe
    IN  [left |-> left,
         value |->
            IF fn.returns = "datapipe" THEN left
            ELSE IF fn.returns = "new"
            THEN UserPipe(NewGraph(<<Shuffler>>, <<{}>>))
            ELSE IF fn.returns = "placeholder"
            THEN UserPipe(NewGraph(<<Shuffler, Dummy>>, <<{2}, {}>>))
            ELSE IF fn.returns = "wrapped"
            THEN UserPipe(Wrapped(left.graph))
            ELSE IF fn.returns = "map"
            THEN [class |-> MapDataPipe,
                  graph |-> NewGraph(<<Shuffler>>, <<{}>>)]
            ELSE [class |-> NotDataPipe]]

\* Mutant: the isinstance check written for IterDataPipe alone.
IsDataPipe_IterOnly(datapipe) == datapipe.class = IterDataPipe

\* isinstance(datapipe, (IterDataPipe, MapDataPipe))
IsDataPipe(datapipe) == datapipe.class \in {IterDataPipe, MapDataPipe}

\* non_replicable_dp = find_dps(graph, _DummyIterDataPipe)
NonReplicableDp(g) == find_dps(g, Dummy)

\* Case 1: apply_sharding on the whole graph.
ShardWholeGraph(g, worker_info) == apply_sharding(g, Root, worker_info)

\* Case 1's assertion: no dispatch queue was passed.
AssertNoQueues(req, res) == req = None /\ res = None

\* Mutant: the assertion on the number of non-replicable DataPipes left out.
BranchAssertFailure_NoCount(non_replicable_dp, req, res) ==
    IF req = None /\ res = None THEN "line 85" ELSE None

\* Case 2's assertions, in order: the first one that fails, or None.
BranchAssertFailure(non_replicable_dp, req, res) ==
    IF Cardinality(non_replicable_dp) # 1 THEN "line 84"
    ELSE IF req = None /\ res = None THEN "line 85"
    ELSE None

RECURSIVE ShardEach(_, _, _)
ShardEach(g, branches, worker_info) ==
    IF branches = {} THEN g
    ELSE LET dp == CHOOSE b \in branches : TRUE
         IN  ShardEach(apply_sharding(g, dp, worker_info),
                       branches \ {dp}, worker_info)

\* Mutant: case 2 shards from the root, as case 1 does.
ShardBranches_Whole(g, worker_info) == apply_sharding(g, Root, worker_info)

\* Case 2: apply_sharding on each replicable branch.
ShardBranches(g, worker_info) ==
    ShardEach(g, find_replicable_branches(g), worker_info)

\* Mutant: the graph replace_dp returns is dropped.
ConnectDispatchProcess_Dropped(g, non_replicable_dp, req, res) == g

\* Case 2: the non-replicable DataPipe is replaced by an
\* _IterateQueueDataPipes over a QueueWrapper of the protocol client built on
\* the two queues.
ConnectDispatchProcess(g, non_replicable_dp, req, res) ==
    replace_dp(g, CHOOSE d \in non_replicable_dp : TRUE, IterQueue,
               [req |-> req, res |-> res])

\* Mutant: the case is chosen by the queue arguments, not by the graph.
ShardingStep_ByQueues(g, worker_info, req, res) ==
    LET non_replicable_dp == NonReplicableDp(g)
    IN  IF req = None /\ res = None
        THEN [raised |-> IF Cardinality(non_replicable_dp) = 0 THEN None
                         ELSE "line 79",
              ran |-> {"whole_graph"},
              calls |-> {Root},
              graph |-> ShardWholeGraph(g, worker_info)]
        ELSE IF Cardinality(non_replicable_dp) # 1
             THEN [raised |-> "line 84", ran |-> {}, calls |-> {}, graph |-> g]
             ELSE [raised |-> None,
                   ran |-> {"replicable_branches"},
                   calls |-> find_replicable_branches(g),
                   graph |-> ConnectDispatchProcess(
                                 ShardBranches(g, worker_info),
                                 non_replicable_dp, req, res)]

\* The sharding part of process_init_fn: which case ran, the nodes
\* apply_sharding was called on, the graph it leaves, and the assertion that
\* failed (None: none did).
ShardingStep(g, worker_info, req, res) ==
    LET non_replicable_dp == NonReplicableDp(g)
    IN  IF Cardinality(non_replicable_dp) = 0
        THEN [raised |-> IF AssertNoQueues(req, res) THEN None ELSE "line 79",
              ran |-> {"whole_graph"},
              calls |-> {Root},
              graph |-> ShardWholeGraph(g, worker_info)]
        ELSE LET failure == BranchAssertFailure(non_replicable_dp, req, res)
             IN  IF failure # None
                 THEN [raised |-> failure, ran |-> {}, calls |-> {},
                       graph |-> g]
                 ELSE [raised |-> None,
                       ran |-> {"replicable_branches"},
                       calls |-> find_replicable_branches(g),
                       graph |-> ConnectDispatchProcess(
                                     ShardBranches(g, worker_info),
                                     non_replicable_dp, req, res)]

\* The custom function part shared by process_init_fn and process_reset_fn:
\* the value returned (Nothing when the isinstance assertion fails), and the
\* state the DataPipe worked on is left in.
CustomStep(fn, line, datapipe) ==
    IF fn = NoFn
    THEN [raised |-> None, ret |-> Some(datapipe), left |-> datapipe]
    ELSE LET out == CallCustomFn(fn, datapipe)
         IN  IF IsDataPipe(out.value)
             THEN [raised |-> None, ret |-> Some(out.value), left |-> out.left]
             ELSE [raised |-> line, ret |-> Nothing, left |-> out.left]

\* process_init_fn(datapipe, worker_info, custom_init_fn,
\*                 dispatching_req_queue, dispatching_res_queue)
process_init_fn(datapipe, worker_info, custom_init_fn, req, res) ==
    LET step == ShardingStep(datapipe.graph, worker_info, req, res)
        sharded == [datapipe EXCEPT !.graph = step.graph]
        custom == CustomStep(custom_init_fn, "line 103", sharded)
    IN  [raised |-> IF step.raised # None THEN step.raised ELSE custom.raised,
         ran |-> step.ran,
         calls |-> step.calls,
         sharded |-> sharded,
         left |-> IF step.raised # None THEN sharded ELSE custom.left,
         ret |-> IF step.raised # None THEN Nothing ELSE custom.ret]

\* Numpy only accepts uint32 as the seed.
NumpySeed(np_seed) ==
    IF np_seed < 0 THEN (65536 * 65536) + np_seed ELSE np_seed

\* Mutant: the numbers are drawn from the process's default generator, whose
\* state is what the last torch.manual_seed left, not from seed_generator.
set_global_random_state_Default(rng, seed_generator, has_numpy) ==
    LET default == IF rng.torch = Nothing THEN manual_seed(0)
                   ELSE manual_seed(Get(rng.torch))
        py_seed == generate_random_int(default)
        torch_seed == generate_random_int(Advance(default))
        np_seed == generate_random_int(Advance(Advance(default)))
    IN  [py |-> Some(py_seed),
         torch |-> Some(torch_seed),
         np |-> IF has_numpy THEN Some(NumpySeed(np_seed)) ELSE rng.np]

\* _set_global_random_state(seed_generator): the seeds given to random,
\* torch and (when numpy is importable) numpy.random.
set_global_random_state(rng, seed_generator, has_numpy) ==
    LET py_seed == generate_random_int(seed_generator)
        torch_seed == generate_random_int(Advance(seed_generator))
        np_seed == generate_random_int(Advance(Advance(seed_generator)))
    IN  [py |-> Some(py_seed),
         torch |-> Some(torch_seed),
         np |-> IF has_numpy THEN Some(NumpySeed(np_seed)) ELSE rng.np]

\* Mutant: the dispatch process seeds by rank, as the workers do.
DispatchSeed_Rank(dist_info) == dist_info.shared_seed + dist_info.rank

\* worker_seed_generator.manual_seed(dist_info.shared_seed) of the dispatch
\* process.
DispatchSeed(dist_info) == dist_info.shared_seed

\* dispatch_process_reset_fn(datapipe, worker_info, dist_info): the graph
\* and the global random state it leaves.
dispatch_process_reset_fn(datapipe, worker_info, dist_info, rng, has_numpy) ==
    LET worker_seed_generator == manual_seed(DispatchSeed(dist_info))
    IN  [datapipe |-> [datapipe EXCEPT !.graph =
                          apply_random_seed(datapipe.graph,
                                            worker_seed_generator)],
         rng |-> set_global_random_state(
                     rng,
                     AfterRandomSeed(datapipe.graph, worker_seed_generator),
                     has_numpy)]

\* dispatch_process_consumer_dps = find_dps(graph, _IterateQueueDataPipes)
DispatchConsumers(g) == find_dps(g, IterQueue)

\* Mutant: every worker sends the reset epoch message.
SendsResetEpoch_Always(worker_info) == worker_info.worker_id >= 0

\* Only send the reset epoch message once.
SendsResetEpoch(worker_info) == worker_info.worker_id = 0

\* "Reset non-sharding process first": whether reset_epoch is called on the
\* dispatch consumer, and the assertion that failed (None: none did).
ResetDispatchStep(g, worker_info) ==
    LET consumers == DispatchConsumers(g)
    IN  IF Cardinality(consumers) > 0
        THEN IF Cardinality(consumers) # 1
             THEN [raised |-> "line 162", send |-> FALSE]
             ELSE [raised |-> None, send |-> SendsResetEpoch(worker_info)]
        ELSE [raised |-> None, send |-> FALSE]

\* Mutant: worker_id is not scaled by the world size.
GlobalWorkerId_Sum(worker_info, dist_info) ==
    worker_info.worker_id + dist_info.rank

\* global_worker_id = worker_id * world_size + rank
GlobalWorkerId(worker_info, dist_info) ==
    worker_info.worker_id * dist_info.world_size + dist_info.rank

\* The seed of the generator the global random state is drawn from.
WorkerSeed(worker_info, dist_info) ==
    dist_info.shared_seed + GlobalWorkerId(worker_info, dist_info)

\* process_reset_fn after the dispatch reset: the graph is seeded from the
\* shared seed, the global random state from the worker's seed, then the
\* custom function runs.
ResetLocalStep(datapipe, worker_info, dist_info, custom_reset_fn, rng, np) ==
    LET seeded == [datapipe EXCEPT !.graph =
                      apply_random_seed(datapipe.graph,
                                        manual_seed(dist_info.shared_seed))]
        worker_seed_generator == manual_seed(WorkerSeed(worker_info, dist_info))
        custom == CustomStep(custom_reset_fn, "line 187", seeded)
    IN  [raised |-> custom.raised,
         seeded |-> seeded,
         left |-> custom.left,
         worker_seed |-> worker_seed_generator.seed,
         rng |-> set_global_random_state(rng, worker_seed_generator, np),
         ret |-> custom.ret]

(* ------------------------------- state --------------------------------- *)
VARIABLES
    cfg,          \* what the reading service passes to every worker
    ctx,          \* ctx[p]: the WorkerInfo, world size, rank and job of process p
    pc,           \* pc[p]: where worker process p stands
    local,        \* local[p]: the worker's local copy of the DataPipe
    init,         \* init[p]: the outcome of p's process_init_fn call (Nothing: not yet)
    reset,        \* reset[p]: the outcome of p's latest process_reset_fn call
    rng,          \* rng[p]: the global random state of process p
    epoch,        \* the current epoch (0: none started)
    shared_seed,  \* the distributed shared seed of the current epoch
    req_queue,    \* req_queue[p]: requests from worker p to its dispatch process
    res_queue,    \* res_queue[p]: responses of the dispatch process to worker p
    disp,         \* disp[j]: the dispatch process of job j: its DataPipe, its global
                  \* random state, the _DistInfo of the last reset it served
    sent          \* every reset_epoch request sent, in order

vars == <<cfg, ctx, pc, local, init, reset, rng, epoch, shared_seed,
          req_queue, res_queue, disp, sent>>

Procs == DOMAIN ctx
Jobs == DOMAIN disp

\* The global random state of a process that was never seeded.
Unseeded == [py |-> Nothing, torch |-> Nothing, np |-> Nothing]

\* _DistInfo of process p in the current epoch.
DistInfoOf(p) == DistInfo(shared_seed, ctx[p].world_size, ctx[p].rank)

Ranks == UNION {{[world_size |-> ws, rank |-> r] : r \in 0..(ws - 1)}
                   : ws \in 1..MaxWorldSize}

Context(worker_info, wr, job) ==
    [worker_info |-> worker_info, world_size |-> wr.world_size,
     rank |-> wr.rank, job |-> job]

Config(g, custom_init_fn, custom_reset_fn, req, res, nonrep, has_numpy) ==
    [datapipe |-> UserPipe(g),
     custom_init_fn |-> custom_init_fn,
     custom_reset_fn |-> custom_reset_fn,
     req |-> req, res |-> res,
     non_replicable |-> UserPipe(nonrep),
     HAS_NUMPY |-> has_numpy]

\* The graphs a dispatch process iterates: no placeholder in them.
DispatchGraphs == GraphsOfSize(1, {Shuffler}) \cup GraphsOfSize(2, {Shuffler})

\* Arguments with which process_init_fn returns.
Accepted(g, req, res) ==
    ShardingStep(g, WorkerInfo(1, 0), req, res).raised = None

\* Everything but cfg and ctx, before any process has run.
Start(procs, jobs) ==
    /\ pc = [p \in procs |-> "start"]
    /\ local = [p \in procs |-> cfg.datapipe]
    /\ init = [p \in procs |-> Nothing]
    /\ reset = [p \in procs |-> Nothing]
    /\ rng = [p \in procs |-> Unseeded]
    /\ epoch = 0
    /\ shared_seed = 0
    /\ req_queue = [p \in procs |-> <<>>]
    /\ res_queue = [p \in procs |-> <<>>]
    /\ disp = [j \in jobs |-> [datapipe |-> cfg.non_replicable,
                               rng |-> Unseeded, dist_info |-> Nothing]]
    /\ sent = <<>>

\* One worker process of any pool, with any arguments: every graph, queue
\* argument and custom function.
Init ==
    /\ cfg \in {Config(g, ci, cr, req, res, nr, TRUE) :
                   g \in Graphs(UserTypes), ci \in CustomFns, cr \in CustomFns,
                   req \in QueueArgs, res \in QueueArgs,
                   nr \in GraphsOfSize(1, {Shuffler})}
    /\ ctx \in {[p \in {0} |-> Context(wi, [world_size |-> 1, rank |-> 0], 0)] :
                   wi \in WorkerInfos}
    /\ Start({0}, {0})

\* The pool of one node: workers 0..num_workers-1 and their dispatch process,
\* on any graph, without custom functions, with or without numpy.  The
\* reading service that starts the pool hands every worker both dispatch
\* queues or neither.
InitPool ==
    /\ cfg \in {Config(g, NoFn, NoFn, q, q, nr, np) :
                   g \in Graphs(UserTypes), q \in QueueArgs,
                   nr \in GraphsOfSize(1, {Shuffler}), np \in BOOLEAN}
    /\ ctx \in {[p \in 0..(n - 1) |-> Context(WorkerInfo(n, p), wr, 0)] :
                   n \in 1..MaxWorkers, wr \in Ranks}
    /\ Start(DOMAIN ctx, {0})

\* Two runs side by side, each a worker process with its own dispatch
\* process: any WorkerInfo, world size and rank for each, on arguments
\* process_init_fn accepts.
InitPair ==
    /\ cfg \in {Config(g, NoFn, NoFn, q, q, nr, TRUE) :
                   g \in GraphsOfSize(2, UserTypes), q \in QueueArgs,
                   nr \in DispatchGraphs}
    /\ Accepted(cfg.datapipe.graph, cfg.req, cfg.res)
    /\ ctx \in {[p \in {0, 1} |-> Context(w[p + 1], r[p + 1], p)] :
                   w \in WorkerInfos \X WorkerInfos, r \in Ranks \X Ranks}
    /\ Start({0, 1}, {0, 1})

(* ------------------------------ actions -------------------------------- *)
\* Worker p runs process_init_fn on its copy of the DataPipe.
ProcessInit(p) ==
    /\ pc[p] = "start"
    /\ LET r == process_init_fn(cfg.datapipe, ctx[p].worker_info,
                                cfg.custom_init_fn, cfg.req, cfg.res)
       IN  /\ init' = [init EXCEPT ![p] = Some(r)]
           /\ local' = [local EXCEPT ![p] =
                           IF r.raised = None THEN Get(r.ret) ELSE r.left]
           /\ pc' = [pc EXCEPT ![p] =
                        IF r.raised = None THEN "idle" ELSE "aborted"]
    /\ UNCHANGED <<cfg, ctx, reset, rng, epoch, shared_seed, req_queue,
                   res_queue, disp, sent>>

\* The main process starts an epoch: every live worker is asked to reset,
\* with the epoch's shared seed.
BeginEpoch ==
    /\ epoch < MaxEpochs
    /\ \A p \in Procs : pc[p] \in {"idle", "aborted"}
    /\ \E p \in Procs : pc[p] = "idle"
    /\ epoch' = epoch + 1
    /\ shared_seed' \in 0..MaxSeed
    /\ pc' = [p \in Procs |-> IF pc[p] = "idle" THEN "reset" ELSE pc[p]]
    /\ UNCHANGED <<cfg, ctx, local, init, reset, rng, req_queue, res_queue,
                   disp, sent>>

\* The nodes of a graph and how they are connected, whatever sharding and
\* seeds were set on them.
NodesOf(g) ==
    [size |-> g.size, type |-> g.type, srcs |-> g.srcs, client |-> g.client]

\* The outcome of the part of process_reset_fn that follows the dispatch
\* reset, recorded with what the call was given.
ResetOutcome(p, did_send) ==
    LET r == ResetLocalStep(local[p], ctx[p].worker_info, DistInfoOf(p),
                            cfg.custom_reset_fn, rng[p], cfg.HAS_NUMPY)
    IN  [epoch |-> epoch, dist_info |-> DistInfoOf(p),
         worker_info |-> ctx[p].worker_info, given |-> NodesOf(local[p].graph),
         sent |-> did_send, raised |-> r.raised, seeded |-> Some(r.seeded),
         worker_seed |-> Some(r.worker_seed), rng |-> r.rng, left |-> r.left,
         ret |-> r.ret]

Aborted(p, why, did_send) ==
    [epoch |-> epoch, dist_info |-> DistInfoOf(p),
     worker_info |-> ctx[p].worker_info, given |-> NodesOf(local[p].graph),
     sent |-> did_send, raised |-> why, seeded |-> Nothing,
     worker_seed |-> Nothing, rng |-> rng[p], left |-> local[p],
     ret |-> Nothing]

Finish(p, out) ==
    /\ reset' = [reset EXCEPT ![p] = Some(out)]
    /\ rng' = [rng EXCEPT ![p] = out.rng]
    /\ local' = [local EXCEPT ![p] =
                    IF out.raised = None THEN Get(out.ret) ELSE out.left]
    /\ pc' = [pc EXCEPT ![p] = IF out.raised = None THEN "idle" ELSE "aborted"]

\* The queue pair of the worker's dispatch consumer.
ClientOf(g) == g.client[CHOOSE i \in DispatchConsumers(g) : TRUE]

\* reset_epoch(reset_fn) on the dispatch consumer puts a request on the
\* client's request queue and blocks on its response queue; a client built on
\* a None queue raises AttributeError at the first use of that queue.
\* Worker p runs process_reset_fn: to its end when no reset_epoch request is
\* to be sent, else up to the request, whose response it then waits for.
ProcessReset(p) ==
    /\ pc[p] = "reset"
    /\ LET step == ResetDispatchStep(local[p].graph, ctx[p].worker_info)
       IN  IF step.raised # None
           THEN /\ Finish(p, Aborted(p, step.raised, FALSE))
                /\ UNCHANGED <<req_queue, sent>>
           ELSE IF ~step.send
           THEN /\ Finish(p, ResetOutcome(p, FALSE))
                /\ UNCHANGED <<req_queue, sent>>
           ELSE IF ClientOf(local[p].graph).req = None
           THEN /\ Finish(p, Aborted(p, "AttributeError", FALSE))
                /\ UNCHANGED <<req_queue, sent>>
           ELSE /\ req_queue' = [req_queue EXCEPT ![p] =
                       Append(@, [fn |-> "dispatch_process_reset_fn",
                                  dist_info |-> DistInfoOf(p)])]
                /\ sent' = Append(sent, [epoch |-> epoch,
                                         job |-> ctx[p].job,
                                         worker_id |->
                                             ctx[p].worker_info.worker_id])
                /\ pc' = [pc EXCEPT ![p] = "waiting"]
                /\ UNCHANGED <<local, reset, rng>>
    /\ UNCHANGED <<cfg, ctx, init, epoch, shared_seed, res_queue, disp>>

\* The dispatch process of job j serves a reset_epoch request: it runs the
\* function it was sent, as WorkerInfo(1, 0), and answers.
DispatchReset(j) ==
    \E p \in Procs :
        /\ ctx[p].job = j
        /\ req_queue[p] # <<>>
        /\ LET msg == Head(req_queue[p])
               r == dispatch_process_reset_fn(disp[j].datapipe, WorkerInfo(1, 0),
                                              msg.dist_info, disp[j].rng,
                                              cfg.HAS_NUMPY)
           IN  disp' = [disp EXCEPT ![j] = [datapipe |-> r.datapipe,
                                            rng |-> r.rng,
                                            dist_info |-> Some(msg.dist_info)]]
        /\ req_queue' = [req_queue EXCEPT ![p] = Tail(@)]
        /\ res_queue' = [res_queue EXCEPT ![p] = Append(@, "ResetEpochResponse")]
        /\ UNCHANGED <<cfg, ctx, pc, local, init, reset, rng, epoch,
                       shared_seed, sent>>

\* Worker p, blocked in reset_epoch, gets the response and runs the rest of
\* process_reset_fn.
ResumeReset(p) ==
    /\ pc[p] = "waiting"
    /\ IF ClientOf(local[p].graph).res = None
       THEN /\ Finish(p, Aborted(p, "AttributeError", TRUE))
            /\ UNCHANGED res_queue
       ELSE /\ res_queue[p] # <<>>
            /\ res_queue' = [res_queue EXCEPT ![p] = Tail(@)]
            /\ Finish(p, ResetOutcome(p, TRUE))
    /\ UNCHANGED <<cfg, ctx, init, epoch, shared_seed, req_queue, disp, sent>>

Next ==
    \/ \E p \in Procs : ProcessInit(p)
    \/ BeginEpoch
    \/ \E p \in Procs : ProcessReset(p)
    \/ \E j \in Jobs : DispatchReset(j)
    \/ \E p \in Procs : ResumeReset(p)

Spec == Init /\ [][Next]_vars

SpecPool == InitPool /\ [][Next]_vars

SpecPair == InitPair /\ [][Next]_vars

(* ------------------------------ properties ----------------------------- *)
\* What the formulas below read off the state, without the model's helpers.
InputGraph == cfg.datapipe.graph

\* The number of _DummyIterDataPipe nodes of the graph handed to the workers.
DummyCount ==
    Cardinality({i \in 1..InputGraph.size : InputGraph.type[i] = Dummy})

NoQueues == cfg.req = None /\ cfg.res = None

HalfQueues == (cfg.req = None) # (cfg.res = None)

NodesOfType(g, cls) == {i \in 1..g.size : g.type[i] = cls}

ShardedNodes(g) == {i \in 1..g.size : g.shard[i] # Nothing}

RECURSIVE Below(_, _)
Below(g, i) == {i} \cup UNION {Below(g, j) : j \in g.srcs[i]}

InitAssertLines == {"line 79", "line 84", "line 85", "line 103"}

Inited(p) == init[p] # Nothing

InitOf(p) == Get(init[p])

HasReset(p) == reset[p] # Nothing

ResetOf(p) == Get(reset[p])

\* The reset_epoch requests of epoch e.
SentIn(e) == {i \in 1..Len(sent) : sent[i].epoch = e}

\* Every worker of the pool has run process_reset_fn to its end in the
\* current epoch.
EpochComplete ==
    /\ epoch >= 1
    /\ \A p \in Procs : /\ pc[p] = "idle"
                        /\ HasReset(p)
                        /\ ResetOf(p).epoch = epoch

HasConsumer(p) == NodesOfType(local[p].graph, IterQueue) # {}

\* C1: in a pool whose workers each run process_reset_fn once per epoch on a
\* graph with the dispatch consumer, the reset_epoch request is sent exactly
\* once per epoch, whatever the order of the workers: never more than once
\* while the epoch runs, once when every worker has finished, and only ever
\* by the worker with worker_id 0.
C1_ResetSentOncePerEpochByWorkerZero ==
    /\ \A i \in 1..Len(sent) : sent[i].worker_id = 0
    /\ \A e \in 1..MaxEpochs : Cardinality(SentIn(e)) <= 1
    /\ (EpochComplete /\ \A p \in Procs : HasConsumer(p))
           => Cardinality(SentIn(epoch)) = 1

C1_Witness ==
    /\ EpochComplete
    /\ epoch = MaxEpochs
    /\ Cardinality(Procs) >= 2
    /\ \A p \in Procs : HasConsumer(p)
    /\ Len(sent) = MaxEpochs

\* C2: every process_init_fn call given exactly one of the two dispatch
\* queues ends in an assertion failure, whatever the graph.
C2_HalfQueuesAlwaysAbort ==
    \A p \in Procs :
        (Inited(p) /\ HalfQueues) => InitOf(p).raised \in InitAssertLines

\* C3: process_init_fn gets past its queue and node-count assertions only
\* when the number of _DummyIterDataPipe nodes matches the queues: one node
\* with a dispatch queue passed, or no node with none passed.  No node with a
\* queue, one node with no queue, and two or more nodes all abort.
C3_CompletesOnlyWhenNodesMatchQueues ==
    \A p \in Procs :
        Inited(p) =>
            /\ InitOf(p).raised = None
                   => \/ DummyCount = 1 /\ ~NoQueues
                      \/ DummyCount = 0 /\ NoQueues
            /\ (DummyCount = 0 /\ ~NoQueues) => InitOf(p).raised = "line 79"
            /\ (DummyCount = 1 /\ NoQueues) => InitOf(p).raised = "line 85"
            /\ DummyCount >= 2 => InitOf(p).raised = "line 84"

C3_Witness ==
    \E p \in Procs :
        /\ Inited(p)
        /\ DummyCount >= 2
        /\ ~NoQueues
        /\ InitOf(p).raised = "line 84"
        /\ InitOf(p).ret = Nothing

\* C4 as stated: in every call exactly one of the two sharding paths
\* executes, never neither, the whole-graph one exactly when the graph has no
\* non-replicable node.
C4_ExactlyOnePathInEveryCall ==
    \A p \in Procs :
        Inited(p) =>
            /\ Cardinality(InitOf(p).ran) = 1
            /\ ("whole_graph" \in InitOf(p).ran) <=> (DummyCount = 0)

\* C4 amended: in every call at most one of the two sharding paths executes,
\* and the graph alone decides which: without a non-replicable node the
\* whole-graph sharding always executes (its assertion comes after it); with
\* one, the per-branch sharding and the replacement execute exactly when the
\* assertions of lines 84-85 pass, and otherwise the call aborts before any
\* sharding, so that neither path executes.
C4_AtMostOnePathDecidedByGraph ==
    \A p \in Procs :
        Inited(p) =>
            LET r == InitOf(p)
                g == r.sharded.graph
            IN  /\ Cardinality(r.ran) <= 1
                /\ ("whole_graph" \in r.ran) <=> (DummyCount = 0)
                /\ ("replicable_branches" \in r.ran)
                       <=> (DummyCount >= 1 /\ r.raised \notin {"line 84", "line 85"})
                /\ (r.ran = {}) <=> (r.raised \in {"line 84", "line 85"})
                /\ ("whole_graph" \in r.ran)
                       => /\ ShardedNodes(g) = 1..g.size
                          /\ NodesOfType(g, IterQueue) = {}
                /\ ("replicable_branches" \in r.ran)
                       => /\ Root \notin ShardedNodes(g)
                          /\ NodesOfType(g, IterQueue) # {}
                /\ (r.ran = {}) => g = InputGraph

C4_Witness ==
    \E p \in Procs :
        /\ Inited(p)
        /\ DummyCount = 1
        /\ ~NoQueues
        /\ InitOf(p).ran = {"replicable_branches"}
        /\ cfg.custom_init_fn # NoFn
        /\ ctx[p].worker_info.worker_id = 1

\* What lines 86-99 do to the graph of worker p, read off the graph g they
\* leave: sharding on exactly the nodes with no _DummyIterDataPipe below
\* them, and the _DummyIterDataPipe replaced by an _IterateQueueDataPipes on
\* the two queues passed.
BranchesShardedAndReplaced(p, g) ==
    LET old == NodesOfType(InputGraph, Dummy)
    IN  /\ ShardedNodes(g) =
               {i \in 1..InputGraph.size : Below(InputGraph, i) \cap old = {}}
        /\ \A i \in ShardedNodes(g) : g.shard[i] = Some(ctx[p].worker_info)
        /\ Root \notin ShardedNodes(g)
        /\ Root \notin InitOf(p).calls
        /\ old \cap ShardedNodes(g) = {}
        /\ NodesOfType(g, Dummy) = {}
        /\ NodesOfType(g, IterQueue) = old
        /\ Cardinality(NodesOfType(g, IterQueue)) = 1
        /\ \A i \in old : g.client[i] = [req |-> cfg.req, res |-> cfg.res]
        /\ \A i \in 1..g.size \ old :
               /\ g.type[i] = InputGraph.type[i]
               /\ g.srcs[i] = InputGraph.srcs[i]

\* C5 as stated: when the graph has a non-replicable node and the call gets
\* past its assertions, sharding is applied to the replicable branches only,
\* and the graph the call returns has the non-replicable node replaced by one
\* _IterateQueueDataPipes connected to the two queues passed, with no
\* _DummyIterDataPipe in it.
C5_ReturnedGraphHasTheConsumer ==
    \A p \in Procs :
        (Inited(p) /\ DummyCount >= 1
                   /\ InitOf(p).raised \notin {"line 84", "line 85"}) =>
            /\ BranchesShardedAndReplaced(p, InitOf(p).sharded.graph)
            /\ InitOf(p).raised = None
                   => LET h == Get(InitOf(p).ret).graph
                      IN  /\ NodesOfType(h, Dummy) = {}
                          /\ Cardinality(NodesOfType(h, IterQueue)) = 1
                          /\ \A i \in NodesOfType(h, IterQueue) :
                                 h.client[i] = [req |-> cfg.req, res |-> cfg.res]

\* C5 amended: when the graph has a non-replicable node and the call gets
\* past the assertions of lines 84-85, sharding is applied to the replicable
\* branches only (exactly the nodes with no _DummyIterDataPipe below them, so
\* never the root nor the non-replicable node), and the graph lines 86-99
\* leave has the non-replicable node replaced by one _IterateQueueDataPipes
\* connected to the two queues passed, with no _DummyIterDataPipe left.  That
\* graph is the one returned when no custom_init_fn is supplied.
C5_BranchShardingAndReplacement ==
    \A p \in Procs :
        (Inited(p) /\ DummyCount >= 1
                   /\ InitOf(p).raised \notin {"line 84", "line 85"}) =>
            /\ BranchesShardedAndReplaced(p, InitOf(p).sharded.graph)
            /\ cfg.custom_init_fn = NoFn
                   => /\ InitOf(p).raised = None
                      /\ Get(InitOf(p).ret).graph = InitOf(p).sharded.graph

C5_Witness ==
    \E p \in Procs :
        /\ Inited(p)
        /\ InitOf(p).raised = None
        /\ cfg.custom_init_fn = NoFn
        /\ InputGraph.size = NumNodes
        /\ DummyCount = 1
        /\ Cardinality(ShardedNodes(InitOf(p).sharded.graph)) = NumNodes - 2
        /\ NodesOfType(Get(InitOf(p).ret).graph, IterQueue) # {}

\* The value the user's function returns for the DataPipe it is handed.
ValueOf(fn, given) == CallCustomFn(fn, given).value

DataPipeClasses == {IterDataPipe, MapDataPipe}

\* C6: in process_init_fn and in process_reset_fn alike, a custom function
\* whose return value is neither an IterDataPipe nor a MapDataPipe makes the
\* call end in the isinstance assertion and return nothing; one whose return
\* value is of either class makes that value, as it is, the call's result;
\* with no custom function the isinstance assertion is not evaluated and the
\* call returns the DataPipe it worked on.
C6_CustomReturnTypeChecked ==
    \A p \in Procs :
        /\ (Inited(p) /\ InitOf(p).raised \notin {"line 79", "line 84", "line 85"})
               => LET r == InitOf(p)
                      fn == cfg.custom_init_fn
                  IN  /\ (fn # NoFn /\ ValueOf(fn, r.sharded).class \notin DataPipeClasses)
                             => r.raised = "line 103" /\ r.ret = Nothing
                      /\ (fn # NoFn /\ ValueOf(fn, r.sharded).class \in DataPipeClasses)
                             => /\ r.raised = None
                                /\ r.ret = Some(ValueOf(fn, r.sharded))
                      /\ fn = NoFn
                             => r.raised = None /\ r.ret = Some(r.sharded)
        /\ (HasReset(p) /\ ResetOf(p).raised \notin {"line 162", "AttributeError"})
               => LET r == ResetOf(p)
                      fn == cfg.custom_reset_fn
                  IN  /\ (fn # NoFn /\ ValueOf(fn, Get(r.seeded)).class \notin DataPipeClasses)
                             => r.raised = "line 187" /\ r.ret = Nothing
                      /\ (fn # NoFn /\ ValueOf(fn, Get(r.seeded)).class \in DataPipeClasses)
                             => /\ r.raised = None
                                /\ r.ret = Some(ValueOf(fn, Get(r.seeded)))
                      /\ fn = NoFn
                             => r.raised = None /\ r.ret = r.seeded

C6_Witness ==
    \E p \in Procs :
        /\ Inited(p)
        /\ cfg.custom_init_fn.returns = "map"
        /\ InitOf(p).raised = None
        /\ Get(InitOf(p).ret).class = MapDataPipe
        /\ Get(InitOf(p).ret).graph # InitOf(p).sharded.graph
        /\ HasReset(p)
        /\ cfg.custom_reset_fn.returns = "none"
        /\ ResetOf(p).raised = "line 187"
        /\ ResetOf(p).ret = Nothing

\* Two finished process_reset_fn calls of different worker processes.
BothReset(p, q) ==
    /\ p # q
    /\ HasReset(p) /\ ResetOf(p).worker_seed # Nothing
    /\ HasReset(q) /\ ResetOf(q).worker_seed # Nothing

SameSeedAndWorld(p, q) ==
    /\ ResetOf(p).dist_info.shared_seed = ResetOf(q).dist_info.shared_seed
    /\ ResetOf(p).dist_info.world_size = ResetOf(q).dist_info.world_size

SameWorkerAndRank(p, q) ==
    /\ ResetOf(p).worker_info.worker_id = ResetOf(q).worker_info.worker_id
    /\ ResetOf(p).dist_info.rank = ResetOf(q).dist_info.rank

\* C7: for one shared seed and world size, two worker processes that differ
\* in worker_id or in rank seed their global random state generator with
\* different seeds.
C7_DistinctSeedsAcrossWorkersAndRanks ==
    \A p, q \in Procs :
        (BothReset(p, q) /\ SameSeedAndWorld(p, q) /\ ~SameWorkerAndRank(p, q))
            => ResetOf(p).worker_seed # ResetOf(q).worker_seed

C7_Witness ==
    \E p, q \in Procs :
        /\ BothReset(p, q)
        /\ SameSeedAndWorld(p, q)
        /\ ResetOf(p).dist_info.world_size = MaxWorldSize
        /\ ResetOf(p).worker_info.worker_id # ResetOf(q).worker_info.worker_id
        /\ ResetOf(p).dist_info.rank # ResetOf(q).dist_info.rank

\* C8: two process_reset_fn calls with the same shared seed, worker_id, world
\* size and rank derive the same worker seed and apply the same seeds to the
\* graph and to the global random generators, whatever num_workers is,
\* whichever call ran first, and whatever random state an earlier epoch left.
C8_SeedDeterminedByFourValues ==
    \A p, q \in Procs :
        (BothReset(p, q) /\ SameSeedAndWorld(p, q) /\ SameWorkerAndRank(p, q))
            => /\ ResetOf(p).worker_seed = ResetOf(q).worker_seed
               /\ ResetOf(p).rng = ResetOf(q).rng
               /\ Get(ResetOf(p).seeded).graph.seed
                      = Get(ResetOf(q).seeded).graph.seed

C8_Witness ==
    \E p, q \in Procs :
        /\ BothReset(p, q)
        /\ SameSeedAndWorld(p, q)
        /\ SameWorkerAndRank(p, q)
        /\ ResetOf(p).worker_info.num_workers # ResetOf(q).worker_info.num_workers
        /\ ResetOf(p).epoch # ResetOf(q).epoch
        /\ rng[p] # Unseeded
        /\ ResetOf(p).rng.py # Nothing

\* C9: dispatch processes that served a reset with the same shared seed are
\* in the same random state, global and of their graph, whatever the world
\* size, rank and WorkerInfo of the worker that asked.
C9_DispatchStateFromSharedSeedOnly ==
    \A j, k \in Jobs :
        (/\ disp[j].dist_info # Nothing
         /\ disp[k].dist_info # Nothing
         /\ Get(disp[j].dist_info).shared_seed = Get(disp[k].dist_info).shared_seed)
            => /\ disp[j].rng = disp[k].rng
               /\ disp[j].datapipe.graph.seed = disp[k].datapipe.graph.seed

C9_Witness ==
    \E j, k \in Jobs :
        /\ disp[j].dist_info # Nothing
        /\ disp[k].dist_info # Nothing
        /\ Get(disp[j].dist_info).shared_seed = Get(disp[k].dist_info).shared_seed
        /\ Get(disp[j].dist_info).rank # Get(disp[k].dist_info).rank
        /\ disp[j].rng.torch # Nothing
        /\ disp[j].datapipe.graph.seed[Root] # Nothing

\* The worker asked for a dispatch reset: it called reset_epoch.
AttemptedDispatchReset(p) ==
    ResetOf(p).sent \/ ResetOf(p).raised = "AttributeError"

\* The latest process_reset_fn call of p was given graph g, whatever seeds
\* were set on its nodes since.
ResetOn(p, g) ==
    /\ ResetOf(p).given.size = g.size
    /\ ResetOf(p).given.type = g.type
    /\ ResetOf(p).given.srcs = g.srcs
    /\ ResetOf(p).given.client = g.client

\* C10: after a process_init_fn call without custom_init_fn that returned,
\* the returned graph has exactly one _IterateQueueDataPipes when the call
\* took the non-replicable path and none when it sharded the whole graph, so
\* no later process_reset_fn call on that graph fails the assertion of line
\* 162, and worker 0 asks for the dispatch reset exactly when dispatch queues
\* were passed to process_init_fn.
C10_ResetFindsAtMostOneConsumer ==
    \A p \in Procs :
        (Inited(p) /\ cfg.custom_init_fn = NoFn /\ InitOf(p).raised = None) =>
            LET g == Get(InitOf(p).ret).graph
            IN  /\ Cardinality(NodesOfType(g, IterQueue))
                       = IF DummyCount = 0 THEN 0 ELSE 1
                /\ Cardinality(NodesOfType(g, IterQueue))
                       = IF NoQueues THEN 0 ELSE 1
                /\ (HasReset(p) /\ ResetOn(p, g)) =>
                       /\ ResetOf(p).raised # "line 162"
                       /\ AttemptedDispatchReset(p)
                              <=> (~NoQueues /\ ctx[p].worker_info.worker_id = 0)

C10_Witness ==
    \E p \in Procs :
        /\ Inited(p)
        /\ cfg.custom_init_fn = NoFn
        /\ InitOf(p).raised = None
        /\ DummyCount = 1
        /\ HasReset(p)
        /\ ResetOn(p, Get(InitOf(p).ret).graph)
        /\ ResetOf(p).sent
        /\ ResetOf(p).raised = None
        /\ ResetOf(p).epoch = MaxEpochs

=============================================================================
